---- MODULE Spec2Model ----
(***************************************************************************)
(* Model of bevy_pixel's texture camera (src/src/texture.rs):              *)
(*   - TexturePixelCamera and its constructors,                            *)
(*   - the setup_camera system (one-time render-target / quad / final      *)
(*     camera setup, issued through Bevy's deferred Commands),             *)
(*   - the scale_render_image system (letterbox fit of the virtual canvas  *)
(*     into the primary window), with its IEEE-754 binary32 arithmetic     *)
(*     (`as f32`, `*`, `/`, `>`, `.floor() as u32`) modelled bit-exactly.  *)
(***************************************************************************)
EXTENDS Integers, Sequences, FiniteSets, TLC

(***************************************************************************)
(* Bounds of the model.                                                    *)
(***************************************************************************)
\* virtual canvas dimensions range over 0..MaxDim
MaxDim == 7
\* physical window dimensions range over 0..MaxWin
MaxWin == 7
\* window scaling factors k range over 1..MaxK
MaxK == 3
\* TexturePixelCamera entities spawned by the application
MaxCameras == 2
\* physical window dimensions of the life-cycle specification: 1..MaxLifeWin
MaxLifeWin == 2

(***************************************************************************)
(* u32.  TLC integers are 32-bit signed, so the one u32 value above 2^31   *)
(* the program can produce here, u32::MAX (the saturating result of        *)
(* `f32::INFINITY as u32`), is carried by a sentinel.                      *)
(***************************************************************************)
U32_MAX == -1

\* u32 `/ 2`
U32Half(n) == IF n = U32_MAX THEN 2147483647 ELSE n \div 2

\* u32::checked_sub: <<TRUE, a - b>> for Some, <<FALSE, 0>> for None
CheckedSub(a, b) == IF a >= b THEN <<TRUE, a - b>> ELSE <<FALSE, 0>>

(***************************************************************************)
(* f32.  A value is NaN, +infinity, +0.0 or a positive normal number       *)
(* m * 2^e with 2^23 <= m < 2^24 (no negative value arises: every operand  *)
(* comes from a u32).  Results are rounded to nearest, ties to even.  The  *)
(* exponents of the model stay far from the subnormal and overflow ranges. *)
(***************************************************************************)
NaN == [k |-> "nan", m |-> 0, e |-> 0]
Inf == [k |-> "inf", m |-> 0, e |-> 0]
Zero == [k |-> "zero", m |-> 0, e |-> 0]
Fin(m, e) == [k |-> "fin", m |-> m, e |-> e]

\* number of significant bits of n > 0
BitLen(n) == CHOOSE b \in 1..31 : 2^(b-1) <= n /\ (b = 31 \/ n < 2^b)

\* round q + (a remainder that is below / equal to / above one half) to even
RoundEven(q, cmp) == IF cmp > 0 \/ (cmp = 0 /\ q % 2 = 1) THEN q + 1 ELSE q

\* the 24-bit significand q (possibly 2^24 after rounding up) at exponent e
Pack(q, e) == IF q = 2^24 THEN Fin(2^23, e + 1) ELSE Fin(q, e)

\* the f32 nearest to n * 2^e, for an integer 0 < n < 2^31
Norm(n, e) ==
    LET bl == BitLen(n) IN
    IF bl <= 24 THEN Fin(n * 2^(24 - bl), e - (24 - bl))
    ELSE LET s == bl - 24
             q == n \div 2^s
             r == n % 2^s
             half == 2^(s-1)
         IN Pack(RoundEven(q, IF r > half THEN 1 ELSE IF r = half THEN 0 ELSE -1), e + s)

\* `n as f32` for a u32 n
U32ToF32(n) ==
    IF n = 0 THEN Zero
    ELSE IF n = U32_MAX THEN Fin(2^23, 9)
    ELSE Norm(n, 0)

\* a * b
F32Mul(a, b) ==
    IF a.k = "nan" \/ b.k = "nan" THEN NaN
    ELSE IF (a.k = "inf" /\ b.k = "zero") \/ (a.k = "zero" /\ b.k = "inf") THEN NaN
    ELSE IF a.k = "inf" \/ b.k = "inf" THEN Inf
    ELSE IF a.k = "zero" \/ b.k = "zero" THEN Zero
    ELSE
      \* 24 x 24 -> 48 bit product, held as hi * 2^24 + lo
      LET a1 == a.m \div 4096
          a0 == a.m % 4096
          b1 == b.m \div 4096
          b0 == b.m % 4096
          mid == a1 * b0 + a0 * b1
          low == (mid % 4096) * 4096 + a0 * b0
          hi == a1 * b1 + mid \div 4096 + low \div 2^24
          lo == low % 2^24
          e == a.e + b.e + 24
      IN IF hi >= 2^23
         THEN Pack(RoundEven(hi, IF lo > 2^23 THEN 1 ELSE IF lo = 2^23 THEN 0 ELSE -1), e)
         ELSE LET q == 2 * hi + lo \div 2^23
                  r == lo % 2^23
              IN Pack(RoundEven(q, IF r > 2^22 THEN 1 ELSE IF r = 2^22 THEN 0 ELSE -1), e - 1)

\* seven more quotient bits of the long division by d: <<quotient, remainder>>
DivStep(qr, d, bits) ==
    <<qr[1] * 2^bits + (qr[2] * 2^bits) \div d, (qr[2] * 2^bits) % d>>

\* a / b
F32Div(a, b) ==
    IF a.k = "nan" \/ b.k = "nan" THEN NaN
    ELSE IF (a.k = "zero" /\ b.k = "zero") \/ (a.k = "inf" /\ b.k = "inf") THEN NaN
    ELSE IF a.k = "inf" \/ b.k = "zero" THEN Inf
    ELSE IF a.k = "zero" \/ b.k = "inf" THEN Zero
    ELSE
      \* the leading quotient bit is 1 once the dividend is aligned
      LET ge == a.m >= b.m
          r0 == IF ge THEN a.m - b.m ELSE 2 * a.m - b.m
          e == IF ge THEN a.e - b.e - 23 ELSE a.e - b.e - 24
          s1 == DivStep(<<1, r0>>, b.m, 7)
          s2 == DivStep(s1, b.m, 7)
          s3 == DivStep(s2, b.m, 7)
          s4 == DivStep(s3, b.m, 2)
          q == s4[1]
          r == s4[2]
      IN Pack(RoundEven(q, IF 2 * r > b.m THEN 1 ELSE IF 2 * r = b.m THEN 0 ELSE -1), e)

\* a > b
F32Gt(a, b) ==
    IF a.k = "nan" \/ b.k = "nan" THEN FALSE
    ELSE IF a.k = "zero" THEN FALSE
    ELSE IF b.k = "inf" THEN FALSE
    ELSE IF a.k = "inf" \/ b.k = "zero" THEN TRUE
    ELSE a.e > b.e \/ (a.e = b.e /\ a.m > b.m)

\* mutant of F32FloorToU32: `.ceil()` for `.floor()`
F32CeilToU32(a) ==
    IF a.k = "nan" \/ a.k = "zero" THEN 0
    ELSE IF a.k = "inf" THEN U32_MAX
    ELSE IF a.e >= 9 THEN U32_MAX
    ELSE IF a.e >= 0 THEN a.m * 2^(a.e)
    ELSE IF a.e < -24 THEN 1
    ELSE a.m \div 2^(0 - a.e) + (IF a.m % 2^(0 - a.e) = 0 THEN 0 ELSE 1)

\* `a.floor() as u32`: the cast saturates and sends NaN to 0
F32FloorToU32(a) ==
    IF a.k = "nan" \/ a.k = "zero" THEN 0
    ELSE IF a.k = "inf" THEN U32_MAX
    ELSE IF a.e >= 9 THEN U32_MAX
    ELSE IF a.e >= 0 THEN a.m * 2^(a.e)
    ELSE IF a.e < -24 THEN 0
    ELSE a.m \div 2^(0 - a.e)

F32IsFinite(a) == a.k = "fin" \/ a.k = "zero"

\* 1.0
F32One == Fin(2^23, -23)

(***************************************************************************)
(* TexturePixelCamera and its constructors.  fixed_axis is "None",         *)
(* "Some(false)" or "Some(true)"; clear_color takes no part in any         *)
(* computation and is left out.                                            *)
(***************************************************************************)
new(size, axis) == [size |-> size, fixed_axis |-> axis, init |-> FALSE]

default == [size |-> <<256, 224>>, fixed_axis |-> "None", init |-> FALSE]

from_height(height) == [size |-> <<0, height>>, fixed_axis |-> "Some(false)", init |-> FALSE]

from_width(width) == [size |-> <<width, 0>>, fixed_axis |-> "Some(true)", init |-> FALSE]

from_size(width, height) == [size |-> <<width, height>>, fixed_axis |-> "None", init |-> FALSE]

FixedAxes == {"None", "Some(false)", "Some(true)"}

(***************************************************************************)
(* The computation of scale_render_image for the tagged pixel camera and   *)
(* the primary window <<physical_width, physical_height>>.                 *)
(***************************************************************************)
\* screen_width as f32 / screen_height as f32
AspectRatio(pixel_camera) ==
    F32Div(U32ToF32(pixel_camera.size[1]), U32ToF32(pixel_camera.size[2]))

\* mutant of Tall: fixed_axis picks the axis that fills the window
TallByFixedAxis(pixel_camera, window) ==
    IF pixel_camera.fixed_axis = "Some(true)" THEN TRUE
    ELSE IF pixel_camera.fixed_axis = "Some(false)" THEN FALSE
    ELSE \/ window[2] > window[1]
         \/ F32Gt(F32Mul(U32ToF32(window[2]), AspectRatio(pixel_camera)), U32ToF32(window[1]))

\* the condition of both `if`s: the window is taller than the canvas
Tall(pixel_camera, window) ==
    \/ window[2] > window[1]
    \/ F32Gt(F32Mul(U32ToF32(window[2]), AspectRatio(pixel_camera)), U32ToF32(window[1]))

\* window_size: the physical size of the viewport
WindowSize(pixel_camera, window) ==
    IF Tall(pixel_camera, window)
    THEN <<window[1], F32FloorToU32(F32Div(U32ToF32(window[1]), AspectRatio(pixel_camera)))>>
    ELSE <<F32FloorToU32(F32Mul(U32ToF32(window[2]), AspectRatio(pixel_camera))), window[2]>>

\* mutant of WindowPosition: halves the difference instead of subtracting halves
WindowPositionHalfDifference(pixel_camera, window) ==
    LET window_size == WindowSize(pixel_camera, window) IN
    IF Tall(pixel_camera, window)
    THEN LET height == CheckedSub(window[2], window_size[2])
         IN IF height[1] THEN <<0, U32Half(height[2])>> ELSE <<0, 0>>
    ELSE LET width == CheckedSub(window[1], window_size[1])
         IN IF width[1] THEN <<U32Half(width[2]), 0>> ELSE <<0, 0>>

\* window_position: the physical position of the viewport
WindowPosition(pixel_camera, window) ==
    LET window_size == WindowSize(pixel_camera, window) IN
    IF Tall(pixel_camera, window)
    THEN LET height == CheckedSub(U32Half(window[2]), U32Half(window_size[2]))
         IN IF height[1] THEN <<0, height[2]>> ELSE <<0, 0>>
    ELSE LET width == CheckedSub(U32Half(window[1]), U32Half(window_size[1]))
         IN IF width[1] THEN <<width[2], 0>> ELSE <<0, 0>>

\* <<scale_width, scale_height>>
ScaleFactors(pixel_camera, window) ==
    LET window_size == WindowSize(pixel_camera, window) IN
    <<F32Div(U32ToF32(window_size[1]), U32ToF32(pixel_camera.size[1])),
      F32Div(U32ToF32(window_size[2]), U32ToF32(pixel_camera.size[2]))>>

\* what one successful run writes: the viewport and the quad's scale
Fit(pixel_camera, window) ==
    [physical_size |-> WindowSize(pixel_camera, window),
     physical_position |-> WindowPosition(pixel_camera, window),
     scale |-> ScaleFactors(pixel_camera, window)]

(***************************************************************************)
(* The world: entities and assets the two systems read and write.          *)
(***************************************************************************)
VARIABLES
    cameras,    \* entities with (TexturePixelCamera, Camera, Camera2d), in spawn order
    images,     \* Assets<Image>: a handle is an index into this sequence
    quads,      \* entities tagged RenderImage
    finals,     \* entities tagged FinalCameraTag
    commands,   \* Commands issued by setup_camera and not yet applied
    windows,    \* entities tagged PrimaryWindow: <<>> or <<physical size>>
    lastOp,     \* the step taken last
    skipped     \* some run of scale_render_image has skipped its computation

vars == <<cameras, images, quads, finals, commands, windows, lastOp, skipped>>

\* Transform::default().scale
DefaultScale == <<F32One, F32One>>

\* a freshly spawned (Camera2dBundle, TexturePixelCamera) entity:
\* target 0 is RenderTarget::Window, target h > 0 is RenderTarget::Image(h)
CameraEntity(pixel_camera) ==
    [pixel_camera |-> pixel_camera, target |-> 0, tagged |-> FALSE]

\* the image allocated for a pixel camera
Image(pixel_camera) == [size |-> pixel_camera.size]

\* the three deferred commands of one setup
InsertCameraTag(entity) ==
    [op |-> "insert_tag", entity |-> entity, texture |-> 0, size |-> <<0, 0>>]

SpawnRenderImage(image_handle, size) ==
    [op |-> "spawn_quad", entity |-> 0, texture |-> image_handle, size |-> size]

SpawnFinalCamera(entity, size) ==
    [op |-> "spawn_final", entity |-> entity, texture |-> 0, size |-> size]

\* the quad entity: mesh of the canvas size, material showing the image
RenderImage(cmd) ==
    [mesh |-> cmd.size, texture |-> cmd.texture, scale |-> DefaultScale]

\* the final camera entity: initial viewport of the canvas size at (0, 0), order 1;
\* `of` records which pixel camera's setup spawned it (the code keeps no link)
FinalCamera(cmd) ==
    [viewport |-> [physical_size |-> cmd.size, physical_position |-> <<0, 0>>],
     order |-> 1, of |-> cmd.entity]

(***************************************************************************)
(* setup_camera: one pass of the `for` loop over the camera query.         *)
(***************************************************************************)
\* mutant of SetupOne: the `if !pixel_camera.init` guard is missing
SetupOneUnguarded(w, entity) ==
    LET pixel_camera == w.cameras[entity].pixel_camera
        image_handle == Len(w.images) + 1
    IN [cameras |-> [w.cameras EXCEPT ![entity].pixel_camera.init = TRUE,
                                      ![entity].target = image_handle],
        images |-> Append(w.images, Image(pixel_camera)),
        commands |-> w.commands \o <<InsertCameraTag(entity),
                                     SpawnRenderImage(image_handle, pixel_camera.size),
                                     SpawnFinalCamera(entity, pixel_camera.size)>>]

\* the body of the loop for camera `entity`, on the world w so far
SetupOne(w, entity) ==
    LET pixel_camera == w.cameras[entity].pixel_camera IN
    IF ~pixel_camera.init
    THEN LET image_handle == Len(w.images) + 1 IN
         [cameras |-> [w.cameras EXCEPT ![entity].pixel_camera.init = TRUE,
                                        ![entity].target = image_handle],
          images |-> Append(w.images, Image(pixel_camera)),
          commands |-> w.commands \o <<InsertCameraTag(entity),
                                       SpawnRenderImage(image_handle, pixel_camera.size),
                                       SpawnFinalCamera(entity, pixel_camera.size)>>]
    ELSE w

RECURSIVE SetupFrom(_, _)
SetupFrom(w, entity) ==
    IF entity > Len(w.cameras) THEN w ELSE SetupFrom(SetupOne(w, entity), entity + 1)

SetupCamera ==
    LET w == SetupFrom([cameras |-> cameras, images |-> images, commands |-> commands], 1) IN
    /\ cameras' = w.cameras
    /\ images' = w.images
    /\ commands' = w.commands
    /\ lastOp' = "setup_camera"
    /\ UNCHANGED <<quads, finals, windows, skipped>>

(***************************************************************************)
(* The command queue is applied at the schedule's next sync point.         *)
(***************************************************************************)
ApplyOne(w, cmd) ==
    IF cmd.op = "insert_tag"
    THEN [w EXCEPT !.cameras[cmd.entity].tagged = TRUE]
    ELSE IF cmd.op = "spawn_quad"
    THEN [w EXCEPT !.quads = Append(@, RenderImage(cmd))]
    ELSE [w EXCEPT !.finals = Append(@, FinalCamera(cmd))]

RECURSIVE ApplyFrom(_, _, _)
ApplyFrom(w, queue, i) ==
    IF i > Len(queue) THEN w ELSE ApplyFrom(ApplyOne(w, queue[i]), queue, i + 1)

ApplyCommands ==
    /\ commands # <<>>
    /\ LET w == ApplyFrom([cameras |-> cameras, quads |-> quads, finals |-> finals],
                          commands, 1)
       IN /\ cameras' = w.cameras
          /\ quads' = w.quads
          /\ finals' = w.finals
    /\ commands' = <<>>
    /\ lastOp' = "apply_commands"
    /\ UNCHANGED <<images, windows, skipped>>

(***************************************************************************)
(* scale_render_image.                                                     *)
(***************************************************************************)
\* the entities matched by Query<&TexturePixelCamera, With<CameraTag>>
TaggedCameras == {i \in DOMAIN cameras : cameras[i].tagged}

\* mutant of AllSingle: the first match is taken where several exist
AnyPresent ==
    /\ Len(quads) >= 1
    /\ Len(windows) >= 1
    /\ Len(finals) >= 1
    /\ TaggedCameras # {}

\* all four get_single_mut() calls return Ok
AllSingle ==
    /\ Len(quads) = 1
    /\ Len(windows) = 1
    /\ Len(finals) = 1
    /\ Cardinality(TaggedCameras) = 1

\* mutant of ScaleRenderImage: once a run has skipped, every run skips
ScaleRenderImageSticky ==
    IF AllSingle /\ ~skipped
    THEN LET pixel_camera == cameras[CHOOSE i \in TaggedCameras : TRUE].pixel_camera
             fit == Fit(pixel_camera, windows[1])
         IN /\ quads' = [quads EXCEPT ![1].scale = fit.scale]
            /\ finals' = [finals EXCEPT ![1].viewport =
                              [physical_size |-> fit.physical_size,
                               physical_position |-> fit.physical_position]]
            /\ lastOp' = "scale_written"
            /\ UNCHANGED <<cameras, images, commands, windows, skipped>>
    ELSE /\ lastOp' = "scale_skipped"
         /\ skipped' = TRUE
         /\ UNCHANGED <<cameras, images, quads, finals, commands, windows>>

ScaleRenderImage ==
    IF AllSingle
    THEN LET pixel_camera == cameras[CHOOSE i \in TaggedCameras : TRUE].pixel_camera
             fit == Fit(pixel_camera, windows[1])
         IN /\ quads' = [quads EXCEPT ![1].scale = fit.scale]
            /\ finals' = [finals EXCEPT ![1].viewport =
                              [physical_size |-> fit.physical_size,
                               physical_position |-> fit.physical_position]]
            /\ lastOp' = "scale_written"
            /\ UNCHANGED <<cameras, images, commands, windows, skipped>>
    ELSE /\ lastOp' = "scale_skipped"
         /\ skipped' = TRUE
         /\ UNCHANGED <<cameras, images, quads, finals, commands, windows>>

(***************************************************************************)
(* The application and the windowing back end.                             *)
(***************************************************************************)
\* the cameras the application spawns in the life-cycle specification
SpawnConfigs == {default, from_size(1, 2), from_height(2)}

\* commands.spawn((Camera2dBundle::default(), TexturePixelCamera::...))
SpawnCamera ==
    /\ Len(cameras) < MaxCameras
    /\ \E pixel_camera \in SpawnConfigs :
           cameras' = Append(cameras, CameraEntity(pixel_camera))
    /\ lastOp' = "spawn_camera"
    /\ UNCHANGED <<images, quads, finals, commands, windows, skipped>>

LifeWindows == {<<w, h>> : w \in 1..MaxLifeWin, h \in 1..MaxLifeWin}

\* the primary window is resized
ResizeWindow ==
    /\ Len(windows) = 1
    /\ \E window \in LifeWindows : window # windows[1] /\ windows' = <<window>>
    /\ lastOp' = "resize_window"
    /\ UNCHANGED <<cameras, images, quads, finals, commands, skipped>>

\* the primary window is closed: its entity is despawned
CloseWindow ==
    /\ Len(windows) = 1
    /\ windows' = <<>>
    /\ lastOp' = "close_window"
    /\ UNCHANGED <<cameras, images, quads, finals, commands, skipped>>

\* a primary window is created
CreateWindow ==
    /\ windows = <<>>
    /\ \E window \in LifeWindows : windows' = <<window>>
    /\ lastOp' = "create_window"
    /\ UNCHANGED <<cameras, images, quads, finals, commands, skipped>>

(***************************************************************************)
(* Spec: the life cycle.  The app starts with its primary window and no    *)
(* pixel camera; the two systems run in any order, any number of times.    *)
(***************************************************************************)
Init ==
    /\ cameras = <<>>
    /\ images = <<>>
    /\ quads = <<>>
    /\ finals = <<>>
    /\ commands = <<>>
    /\ windows \in {<<window>> : window \in LifeWindows}
    /\ lastOp = "init"
    /\ skipped = FALSE

Next ==
    \/ SpawnCamera
    \/ SetupCamera
    \/ ApplyCommands
    \/ ScaleRenderImage
    \/ ResizeWindow
    \/ CloseWindow
    \/ CreateWindow

Spec == Init /\ [][Next]_vars

(***************************************************************************)
(* SpecFit: the fit as a function of the canvas, fixed_axis and the        *)
(* window.  One pixel camera of any size and fixed_axis has been set up    *)
(* and its commands applied; the window has any size; scale_render_image   *)
(* runs.                                                                   *)
(***************************************************************************)
CanvasSizes == {<<w, h>> : w \in 0..MaxDim, h \in 0..MaxDim}

FitWindows == {<<w, h>> : w \in 0..MaxWin, h \in 0..MaxWin}

InitFit ==
    \E size \in CanvasSizes, axis \in FixedAxes, window \in FitWindows :
        LET w == ApplyFrom(
                    [cameras |-> SetupOne([cameras |-> <<CameraEntity(new(size, axis))>>,
                                           images |-> <<>>, commands |-> <<>>], 1).cameras,
                     quads |-> <<>>, finals |-> <<>>],
                    SetupOne([cameras |-> <<CameraEntity(new(size, axis))>>,
                              images |-> <<>>, commands |-> <<>>], 1).commands, 1)
        IN /\ cameras = w.cameras
           /\ images = <<Image(new(size, axis))>>
           /\ quads = w.quads
           /\ finals = w.finals
           /\ commands = <<>>
           /\ windows = <<window>>
           /\ lastOp = "apply_commands"
           /\ skipped = FALSE

NextFit == ScaleRenderImage

SpecFit == InitFit /\ [][NextFit]_vars

(***************************************************************************)
(* Properties.  In a state reached by a run of scale_render_image that     *)
(* wrote (lastOp = "scale_written") there is exactly one tagged pixel      *)
(* camera, one window, one final camera and one quad.                      *)
(***************************************************************************)
Written == lastOp = "scale_written"

\* the canvas, the window and what the run wrote
CanvasOf == cameras[CHOOSE i \in TaggedCameras : TRUE].pixel_camera
W == CanvasOf.size[1]
H == CanvasOf.size[2]
Ww == windows[1][1]
Wh == windows[1][2]
ViewportSize == finals[1].viewport.physical_size
ViewportOrigin == finals[1].viewport.physical_position
AxisScale == quads[1].scale

PositiveCanvas == W > 0 /\ H > 0
PositiveWindow == Ww > 0 /\ Wh > 0

\* C1: for a canvas with W, H > 0 and a window with Ww, Wh > 0, the viewport
\* scale_render_image writes lies wholly inside the window: its size does not
\* exceed the window on either axis, and neither does origin + size.
C1_ViewportInsideWindow ==
    (Written /\ PositiveCanvas /\ PositiveWindow) =>
        /\ ViewportSize[1] <= Ww
        /\ ViewportSize[2] <= Wh
        /\ ViewportOrigin[1] + ViewportSize[1] <= Ww
        /\ ViewportOrigin[2] + ViewportSize[2] <= Wh

\* C3: for a canvas of width 0 or height 0, scale_render_image writes a
\* well-defined result: no written field comes from a division by zero (no NaN
\* or infinite scale component, no viewport dimension saturated from infinity).
\* Stated for windows with Ww, Wh > 0, where the canvas alone is degenerate.
C3_DegenerateCanvasDetected ==
    (Written /\ ~PositiveCanvas /\ PositiveWindow) =>
        /\ F32IsFinite(AxisScale[1])
        /\ F32IsFinite(AxisScale[2])
        /\ ViewportSize[1] # U32_MAX
        /\ ViewportSize[2] # U32_MAX

\* C5: for a canvas with W, H > 0 and a window with Ww, Wh > 0, both components
\* of the written axis scale are strictly positive, that is, both viewport
\* dimensions are.
C5_ScalePositive ==
    (Written /\ PositiveCanvas /\ PositiveWindow) =>
        /\ AxisScale[1].k = "fin"
        /\ AxisScale[2].k = "fin"
        /\ ViewportSize[1] > 0
        /\ ViewportSize[2] > 0

\* C6: when the window is k times the canvas on both axes (k >= 1, W, H > 0),
\* the written viewport is the whole window at origin (0, 0) and the axis scale
\* is (k, k).
C6_ExactMultipleFillsWindow ==
    (Written /\ PositiveCanvas) =>
        \A k \in 1..MaxWin :
            (Ww = k * W /\ Wh = k * H) =>
                /\ ViewportSize = <<Ww, Wh>>
                /\ ViewportOrigin = <<0, 0>>
                /\ AxisScale = <<U32ToF32(k), U32ToF32(k)>>

FloorHalfDifference(window_dim, viewport_dim) ==
    IF window_dim < viewport_dim THEN 0 ELSE (window_dim - viewport_dim) \div 2

\* floor(window_dim / 2) - floor(viewport_dim / 2), clamped to 0
DifferenceOfHalves(window_dim, viewport_dim) ==
    IF window_dim \div 2 < viewport_dim \div 2 THEN 0
    ELSE window_dim \div 2 - viewport_dim \div 2

InitCameras == {i \in DOMAIN cameras : cameras[i].pixel_camera.init}

\* commands of the given kind waiting in the queue
Queued(op) == Cardinality({c \in DOMAIN commands : commands[c].op = op})

\* what setup_camera does, step by step: init never returns to false, a run
\* leaves every camera with init = true, and a run that finds every camera with
\* init = true changes nothing
C2_SetupStep ==
    /\ \A i \in DOMAIN cameras : cameras[i].pixel_camera.init => cameras'[i].pixel_camera.init
    /\ lastOp' = "setup_camera" =>
           /\ \A i \in DOMAIN cameras' : cameras'[i].pixel_camera.init
           /\ Len(images') = Len(images) + Cardinality(DOMAIN cameras \ InitCameras)
           /\ (InitCameras = DOMAIN cameras) =>
                  UNCHANGED <<cameras, images, quads, finals, commands>>

\* every set-up camera renders to an image of its own
C2_OwnImage ==
    \A i \in InitCameras :
        /\ cameras[i].target \in DOMAIN images
        /\ \A j \in InitCameras : cameras[j].target = cameras[i].target => j = i

\* C2 as claimed: the one-time setup runs exactly once per camera (the first
\* run that sees init = false performs it and sets init, later runs are no-ops,
\* init never returns to false), and the numbers of render images, RenderImage
\* quads and FinalCameraTag cameras always equal the number of cameras with
\* init = true.
C2_SetupExactlyOnce ==
    /\ [][C2_SetupStep]_vars
    /\ [](/\ C2_OwnImage
          /\ Len(images) = Cardinality(InitCameras)
          /\ Len(quads) = Cardinality(InitCameras)
          /\ Len(finals) = Cardinality(InitCameras))

\* C2 as amended: the same, except that the quads and final cameras are spawned
\* by deferred commands: the number of render images always equals the number
\* of cameras with init = true, the numbers of quads and of final cameras equal
\* it once the queued commands are counted in, and so whenever no command is
\* queued.
C2_SetupExactlyOnceDeferred ==
    /\ [][C2_SetupStep]_vars
    /\ [](/\ C2_OwnImage
          /\ Len(images) = Cardinality(InitCameras)
          /\ Len(quads) + Queued("spawn_quad") = Cardinality(InitCameras)
          /\ Len(finals) + Queued("spawn_final") = Cardinality(InitCameras)
          /\ commands = <<>> =>
                 /\ Len(quads) = Cardinality(InitCameras)
                 /\ Len(finals) = Cardinality(InitCameras))

\* setup_camera has just run again over two cameras that were both set up
C2_Witness ==
    /\ lastOp = "setup_camera"
    /\ Cardinality(InitCameras) = 2
    /\ commands = <<>>
    /\ Len(images) = 2
    /\ Len(quads) = 2
    /\ Len(finals) = 2

\* a step that is a run of scale_render_image
ScaleRun == lastOp' \in {"scale_written", "scale_skipped"}

\* C4: a run of scale_render_image in which the quad, the primary window, the
\* final camera or the tagged pixel camera is absent changes no viewport and no
\* quad scale and ends normally; a run in which each of the four is there
\* (exactly once) writes the fit of that run's window, whatever earlier runs
\* skipped.
C4_SkipThenRetry ==
    [][ScaleRun =>
          /\ (Len(quads) = 0 \/ Len(windows) = 0 \/ Len(finals) = 0 \/ TaggedCameras = {}) =>
                 /\ lastOp' = "scale_skipped"
                 /\ UNCHANGED <<finals, quads>>
          /\ (Len(quads) = 1 /\ Len(windows) = 1 /\ Len(finals) = 1
                /\ Cardinality(TaggedCameras) = 1) =>
                 /\ lastOp' = "scale_written"
                 /\ finals'[1].viewport.physical_size = WindowSize(CanvasOf, windows[1])
                 /\ finals'[1].viewport.physical_position = WindowPosition(CanvasOf, windows[1])
                 /\ quads'[1].scale = ScaleFactors(CanvasOf, windows[1])]_vars

\* a run wrote the fit after an earlier run had skipped
C4_Witness ==
    /\ Written
    /\ skipped
    /\ ViewportSize = WindowSize(CanvasOf, windows[1])

\* the viewport a final camera is spawned with
InitialViewport(final) ==
    [physical_size |-> cameras[final.of].pixel_camera.size, physical_position |-> <<0, 0>>]

\* C10 as claimed: once two or more pixel cameras have gone through
\* setup_camera, no run of scale_render_image changes a viewport or a quad
\* scale, and every final camera has its initial viewport: size `size` at (0, 0).
C10_TwoCamerasFreeze ==
    /\ [][(Cardinality(InitCameras) >= 2 /\ ScaleRun) =>
              /\ lastOp' = "scale_skipped"
              /\ UNCHANGED <<finals, quads>>]_vars
    /\ [](Cardinality(InitCameras) >= 2 =>
              \A f \in DOMAIN finals : finals[f].viewport = InitialViewport(finals[f]))

\* C10 as amended: once the commands of two or more setups have been applied
\* (two or more quads, final cameras and tagged pixel cameras exist), every run
\* of scale_render_image skips and no viewport or quad scale changes any more;
\* every final camera but the first has its initial viewport, and the first has
\* it unless a run had fitted it while it was the only one.
C10_TwoAppliedFreeze ==
    /\ [][(Len(finals) >= 2 /\ ScaleRun) => lastOp' = "scale_skipped"]_vars
    /\ [][Len(finals) >= 2 =>
              /\ \A f \in DOMAIN finals : finals'[f] = finals[f]
              /\ \A q \in DOMAIN quads : quads'[q] = quads[q]]_vars
    /\ [](/\ Len(finals) >= 2 =>
                 Len(quads) >= 2 /\ Cardinality(TaggedCameras) >= 2
          /\ \A f \in 2..Len(finals) : finals[f].viewport = InitialViewport(finals[f])
          /\ Len(finals) >= 1 =>
                 \/ finals[1].viewport = InitialViewport(finals[1])
                 \/ \E window \in LifeWindows :
                        /\ finals[1].viewport.physical_size =
                               WindowSize(cameras[finals[1].of].pixel_camera, window)
                        /\ finals[1].viewport.physical_position =
                               WindowPosition(cameras[finals[1].of].pixel_camera, window))

\* scale_render_image has just run with two final cameras, the first of which
\* had been fitted before the second was spawned
C10_Witness ==
    /\ lastOp = "scale_skipped"
    /\ Len(finals) = 2
    /\ Len(windows) = 1
    /\ finals[1].viewport # InitialViewport(finals[1])
    /\ finals[2].viewport = InitialViewport(finals[2])
====
